---- MODULE Spec2Model ----
(***************************************************************************)
(* ConversionWorker of hd.py: the batch loop of run(), the metadata probe, *)
(* the two encoder passes and the signals the worker emits.                *)
(*                                                                         *)
(* trace is the history of what the worker thread did, in order: every     *)
(* signal it emitted (update_status, show_error, update_progress,          *)
(* finished) and every external process it ran (ffprobe, pass 1, pass 2).  *)
(* A file is named by its position in files_to_process (paths of one batch *)
(* are pairwise distinct: DropZoneTree.dropEvent refuses a known path).    *)
(***************************************************************************)
EXTENDS Integers, Sequences, FiniteSets

VARIABLES files_to_process, selected_ratio_str, is_running,
          pc, i, probe_result, metadata, plan, error, exc, trace, cancel_started,
          items, aspect_ratio_choice, convert_enabled, clear_enabled,
          delivered, submitted, resubmitted

\* The worker: its fields, the position and locals of run(), its history.
workervars == <<files_to_process, selected_ratio_str, is_running,
                pc, i, probe_result, metadata, plan, error, exc, trace,
                cancel_started>>

\* The window: the rows of file_list_tree (path and status text), the combo
\* box, the two buttons, how far into the worker's history the queued
\* signals have been handled, and which paths were handed to a worker once
\* and more than once since the list was last cleared.
guivars == <<items, aspect_ratio_choice, convert_enabled, clear_enabled,
             delivered, submitted, resubmitted>>

vars == <<workervars, guivars>>

\* ------------------------------------------------------------------ bounds
\* Largest batch handed to one worker.
MaxFiles == 3
\* Number of distinct paths the user has at hand to drop.
MaxPaths == 2

\* ------------------------------------------------------------- value sets
\* The five entries of the aspect-ratio combo box.
Modes == {"Keep Original (Pad)", "Crop to 16:9 (Widescreen)",
          "Crop to 9:16 (Tall/Story)", "Crop to 1:1 (Square)",
          "Crop to 19.5:9 (Modern Phone)"}

\* Stored dimensions an ffprobe report may carry (0 is what ffprobe prints
\* for a stream whose size it could not determine).
Dims == {0, 1080, 1920}

\* The rotate tag of the video stream as ffprobe prints it: a string, or no
\* tag at all.
RotateTags == {"absent", "0", "90", "180", "270", "bad"}

\* What one ffprobe call can come back with:
\*   toolfail      non-zero exit or the tool cannot be started
\*   malformed     stdout is not JSON
\*   missingfield  'streams', 'codec_type', 'width' or 'height' is missing
\*   novideo       no stream of codec_type 'video'
\*   video         a video stream with width, height and maybe a rotate tag
ProbeOutputs ==
    [kind : {"toolfail", "malformed", "missingfield", "novideo"},
     width : {0}, height : {0}, rotate : {"absent"}]
    \cup [kind : {"video"}, width : Dims, height : Dims, rotate : RotateTags]

\* How one subprocess.run(..., check=True) of ffmpeg can end:
\*   ok         exit status 0
\*   nonzero    CalledProcessError
\*   spawnfail  the process could not be started (OSError, FileNotFoundError)
ProcResults == {"ok", "nonzero", "spawnfail"}

\* No probe result at hand (before the probe, and once its metadata is used).
NoResult == [kind |-> "none", width |-> 0, height |-> 0, rotate |-> "absent"]

None == [width |-> -1, height |-> -1, rotation |-> -1]
NoError == "None"

\* int(s) on the rotate tag: <<TRUE, n>> or <<FALSE, 0>> for a ValueError.
ParseInt(s) ==
    CASE s = "0" -> <<TRUE, 0>>
      [] s = "90" -> <<TRUE, 90>>
      [] s = "180" -> <<TRUE, 180>>
      [] s = "270" -> <<TRUE, 270>>
      [] OTHER -> <<FALSE, 0>>

\* get_video_metadata: <<metadata, error>>. Every exception raised inside the
\* try block (tool failure, JSON error, KeyError, ValueError) is turned into
\* an error text; 'rotate' defaults to 0 only when the tag is absent.
get_video_metadata(out) ==
    CASE out.kind \in {"toolfail", "malformed", "missingfield"} ->
            <<None, "Failed to get video metadata">>
      [] out.kind = "novideo" -> <<None, "No video stream found.">>
      [] OTHER ->
            IF out.rotate = "absent"
            THEN <<[width |-> out.width, height |-> out.height, rotation |-> 0],
                   NoError>>
            ELSE IF ParseInt(out.rotate)[1]
            THEN <<[width |-> out.width, height |-> out.height,
                    rotation |-> ParseInt(out.rotate)[2]], NoError>>
            ELSE <<None, "Failed to get video metadata">>

\* ratio_map (lines 64-67) as exact fractions: 16/9, 9/16, 1.0 and 19.5/9.
ratio_map(mode) ==
    CASE mode = "Crop to 16:9 (Widescreen)" -> [num |-> 16, den |-> 9]
      [] mode = "Crop to 9:16 (Tall/Story)" -> [num |-> 9, den |-> 16]
      [] mode = "Crop to 1:1 (Square)" -> [num |-> 1, den |-> 1]
      [] mode = "Crop to 19.5:9 (Modern Phone)" -> [num |-> 39, den |-> 18]

\* Line 87 as it would read with round() in place of int().
CropTarget_Rounded(r) ==
    IF r.num >= r.den
    THEN <<1280, (2 * 1280 * r.den + r.num) \div (2 * r.num)>>
    ELSE <<(2 * 1280 * r.num + r.den) \div (2 * r.den), 1280>>

\* Line 87: the target size of a crop mode; int() drops the fraction.
CropTarget(r) ==
    IF r.num >= r.den
    THEN <<1280, (1280 * r.den) \div r.num>>
    ELSE <<(1280 * r.num) \div r.den, 1280>>

\* Line 88 as it would read with >= in place of >.
CropFilter_Inclusive(w, h, r) ==
    IF w * r.den >= h * r.num THEN "crop=ih*R:ih" ELSE "crop=iw:iw/R"

\* Line 88: input_ar > target_ar, with input_ar = width / height, h > 0.
CropFilter(w, h, r) ==
    IF w * r.den > h * r.num THEN "crop=ih*R:ih" ELSE "crop=iw:iw/R"

\* Line 82 as it would read with > in place of >=.
PadTarget_Strict(w, h) == IF w > h THEN <<1280, 720>> ELSE <<720, 1280>>

\* Line 82: the target size of the pad mode.
PadTarget(w, h) == IF w >= h THEN <<1280, 720>> ELSE <<720, 1280>>

\* Line 80 as it would read without the rotation test.
EffectiveDims_Stored(m) == [width |-> m.width, height |-> m.height]

\* Rotation-corrected dimensions (line 80).
EffectiveDims(m) ==
    IF m.rotation \in {90, 270}
    THEN [width |-> m.height, height |-> m.width]
    ELSE [width |-> m.width, height |-> m.height]

\* Lines 81-89 raise ZeroDivisionError in the crop modes when the effective
\* height is 0 (input_ar = width / height); the pad mode divides nothing.
PlanRaises(m, mode) ==
    /\ mode # "Keep Original (Pad)"
    /\ EffectiveDims(m).height = 0

\* No plan at hand.
NoPlan == [width |-> -1, height |-> -1, target_w |-> -1, target_h |-> -1,
           scale_filter |-> "none"]

\* Lines 80-89: the effective dimensions, the target size and the filter
\* chain (scale and pad, or crop and scale).
GeometryPlan(m, mode) ==
    LET e == EffectiveDims(m)
    IN  IF mode = "Keep Original (Pad)"
        THEN [width |-> e.width, height |-> e.height,
              target_w |-> PadTarget(e.width, e.height)[1],
              target_h |-> PadTarget(e.width, e.height)[2],
              scale_filter |-> "scale,pad"]
        ELSE [width |-> e.width, height |-> e.height,
              target_w |-> CropTarget(ratio_map(mode))[1],
              target_h |-> CropTarget(ratio_map(mode))[2],
              scale_filter |-> CropFilter(e.width, e.height, ratio_map(mode))]

\* Line 112 as it would read with round() in place of int().
Progress_Rounded(k, n) == (200 * k + n) \div (2 * n)

\* Line 112: int(((i + 1) / total_files) * 100), k = i + 1. Truncation of the
\* double product; it equals the integer quotient for every batch of fewer
\* than 50 files.
Progress(k, n) == (100 * k) \div n

\* The source path a file number stands for, as directory-free name parts:
\* stem, how many "_whatsapp" the name carries after the stem, extension.
\* Files 1, 2 and 3 are clip.mp4, clip.mov and clip_whatsapp.mp4; a later
\* file k is clip<k>.mp4.
PathOf(k) ==
    CASE k = 1 -> [stem |-> 1, whatsapp |-> 0, ext |-> ".mp4"]
      [] k = 2 -> [stem |-> 1, whatsapp |-> 0, ext |-> ".mov"]
      [] k = 3 -> [stem |-> 1, whatsapp |-> 1, ext |-> ".mp4"]
      [] OTHER -> [stem |-> k, whatsapp |-> 0, ext |-> ".mp4"]

\* Lines 71-72: base, _ = os.path.splitext(file_path);
\* output_file = base + "_whatsapp.mp4".
output_file(path) ==
    [stem |-> path.stem, whatsapp |-> path.whatsapp + 1, ext |-> ".mp4"]

total_files == Len(files_to_process)

\* The loop as it would run over reversed(self.files_to_process).
file_path_Reversed == files_to_process[total_files - i]

\* The file of the current iteration.
file_path == files_to_process[i + 1]

StatusEv(f, s) == [kind |-> "status", file |-> f, val |-> s]
ErrorEv(f, t) == [kind |-> "error", file |-> f, val |-> t]
ProgressEv(f, p) == [kind |-> "progress", file |-> f, val |-> p]
FinishedEv == [kind |-> "finished", file |-> 0, val |-> ""]
ProcEv(tool, f, r) == [kind |-> tool, file |-> f, val |-> r]

Emit(e) == trace' = Append(trace, e)

\* ------------------------------------------------------------------- Init
\* __init__ (lines 36-40) as start_conversion calls it: a non-empty list of
\* queued paths, the selected mode, is_running = True; the window as
\* start_conversion leaves it (buttons disabled, no signal handled yet).
Init ==
    /\ files_to_process \in {[k \in 1..n |-> k] : n \in 1..MaxFiles}
    /\ selected_ratio_str \in Modes
    /\ is_running = TRUE
    /\ pc = "loop"
    /\ i = 0
    /\ probe_result = NoResult
    /\ metadata = None
    /\ plan = NoPlan
    /\ error = NoError
    /\ exc = "none"
    /\ trace = <<>>
    /\ cancel_started = 0
    /\ items = [k \in 1..total_files |-> [path |-> k, status |-> "Queued"]]
    /\ aspect_ratio_choice = selected_ratio_str
    /\ convert_enabled = FALSE
    /\ clear_enabled = FALSE
    /\ delivered = 0
    /\ submitted = {files_to_process[k] : k \in 1..total_files}
    /\ resubmitted = {}

\* ---------------------------------------------------------------- actions
\* Lines 69-70: the loop head takes the next file unless the list is
\* exhausted or is_running is false.
LoopCheck ==
    /\ pc = "loop"
    /\ pc' = IF i < total_files /\ is_running THEN "start" ELSE "finish"
    /\ UNCHANGED <<files_to_process, selected_ratio_str, is_running, i,
                   probe_result, metadata, plan, error, exc, trace, cancel_started>>
    /\ UNCHANGED guivars

\* Lines 71-73: status 'Analyzing'.
EmitAnalyzing ==
    /\ pc = "start"
    /\ Emit(StatusEv(file_path, "Analyzing"))
    /\ pc' = "probe"
    /\ UNCHANGED <<files_to_process, selected_ratio_str, is_running, i,
                   probe_result, metadata, plan, error, exc, cancel_started>>
    /\ UNCHANGED guivars

\* Line 74: the probe. The history keeps whether get_video_metadata came back
\* with an error, probe_result what ffprobe had answered.
Probe ==
    /\ pc = "probe"
    /\ \E out \in ProbeOutputs :
          /\ probe_result' = out
          /\ metadata' = get_video_metadata(out)[1]
          /\ error' = get_video_metadata(out)[2]
          /\ Emit(ProcEv("ffprobe", file_path,
                         IF get_video_metadata(out)[2] # NoError
                         THEN "error" ELSE "ok"))
    /\ pc' = IF error' # NoError THEN "analyze_failed" ELSE "plan"
    /\ UNCHANGED <<files_to_process, selected_ratio_str, is_running, i,
                   plan, exc, cancel_started>>
    /\ UNCHANGED guivars

\* Line 76: status 'Analyze Failed'.
EmitAnalyzeFailed ==
    /\ pc = "analyze_failed"
    /\ Emit(StatusEv(file_path, "AnalyzeFailed"))
    /\ pc' = "analysis_error"
    /\ UNCHANGED <<files_to_process, selected_ratio_str, is_running, i,
                   probe_result, metadata, plan, error, exc, cancel_started>>
    /\ UNCHANGED guivars

\* Lines 77-78: show_error, then continue with the next file.
EmitAnalysisError ==
    /\ pc = "analysis_error"
    /\ Emit(ErrorEv(file_path, "Analysis Error"))
    /\ i' = i + 1
    /\ pc' = "loop"
    /\ probe_result' = NoResult
    /\ metadata' = None
    /\ error' = NoError
    /\ UNCHANGED <<files_to_process, selected_ratio_str, is_running,
                   plan, exc, cancel_started>>
    /\ UNCHANGED guivars

\* Lines 80-100: effective dimensions, target size, filter and the two
\* command lines, all outside the try block. The metadata stays at hand next
\* to the plan made from it until pass 1 is announced.
Plan ==
    /\ pc = "plan"
    /\ IF PlanRaises(metadata, selected_ratio_str)
       THEN /\ pc' = "crashed"
            /\ metadata' = None
            /\ plan' = NoPlan
       ELSE /\ pc' = "pass1"
            /\ metadata' = metadata
            /\ plan' = GeometryPlan(metadata, selected_ratio_str)
    /\ probe_result' = NoResult
    /\ UNCHANGED <<files_to_process, selected_ratio_str, is_running, i,
                   error, exc, trace, cancel_started>>
    /\ UNCHANGED guivars

\* Line 103: status 'Pass 1'.
EmitPassOne ==
    /\ pc = "pass1"
    /\ Emit(StatusEv(file_path, "PassOneRunning"))
    /\ pc' = "run1"
    /\ metadata' = None
    /\ plan' = NoPlan
    /\ UNCHANGED <<files_to_process, selected_ratio_str, is_running, i,
                   probe_result, error, exc, cancel_started>>
    /\ UNCHANGED guivars

\* The try block as it would run without check=True: a non-zero exit status
\* raises nothing.
AfterRun_Unchecked(r, next) ==
    /\ exc' = IF r = "spawnfail" THEN "OSError" ELSE "none"
    /\ pc' = IF r = "spawnfail" THEN "finally" ELSE next

\* Where the try block goes after a subprocess.run(check=True) that ended r.
AfterRun(r, next) ==
    /\ exc' = CASE r = "ok" -> "none"
                [] r = "nonzero" -> "CalledProcessError"
                [] OTHER -> "OSError"
    /\ pc' = CASE r = "ok" -> next
               [] r = "nonzero" -> "except"
               [] OTHER -> "finally"

\* Line 104: pass 1.
RunPassOne ==
    /\ pc = "run1"
    /\ \E r \in ProcResults :
          /\ Emit(ProcEv("pass1", file_path, r))
          /\ AfterRun(r, "pass2")
    /\ UNCHANGED <<files_to_process, selected_ratio_str, is_running, i,
                   probe_result, metadata, plan, error, cancel_started>>
    /\ UNCHANGED guivars

\* Line 105: status 'Pass 2'.
EmitPassTwo ==
    /\ pc = "pass2"
    /\ Emit(StatusEv(file_path, "PassTwoRunning"))
    /\ pc' = "run2"
    /\ UNCHANGED <<files_to_process, selected_ratio_str, is_running, i,
                   probe_result, metadata, plan, error, exc, cancel_started>>
    /\ UNCHANGED guivars

\* Line 106: pass 2.
RunPassTwo ==
    /\ pc = "run2"
    /\ \E r \in ProcResults :
          /\ Emit(ProcEv("pass2", file_path, r))
          /\ AfterRun(r, "emit_done")
    /\ UNCHANGED <<files_to_process, selected_ratio_str, is_running, i,
                   probe_result, metadata, plan, error, cancel_started>>
    /\ UNCHANGED guivars

\* Line 107: status 'Done'.
EmitDone ==
    /\ pc = "emit_done"
    /\ Emit(StatusEv(file_path, "Done"))
    /\ pc' = "finally"
    /\ UNCHANGED <<files_to_process, selected_ratio_str, is_running, i,
                   probe_result, metadata, plan, error, exc, cancel_started>>
    /\ UNCHANGED guivars

\* Lines 108-109: except CalledProcessError, status 'Error'.
EmitEncodeFailed ==
    /\ pc = "except"
    /\ Emit(StatusEv(file_path, "EncodeFailed"))
    /\ pc' = "conversion_error"
    /\ UNCHANGED <<files_to_process, selected_ratio_str, is_running, i,
                   probe_result, metadata, plan, error, exc, cancel_started>>
    /\ UNCHANGED guivars

\* The except clause as it would run without line 110: no show_error.
EmitConversionError_Silent ==
    /\ pc = "conversion_error"
    /\ exc' = "none"
    /\ pc' = "finally"
    /\ UNCHANGED <<files_to_process, selected_ratio_str, is_running, i,
                   probe_result, metadata, plan, error, trace, cancel_started>>
    /\ UNCHANGED guivars

\* Line 110: show_error; the exception is handled.
EmitConversionError ==
    /\ pc = "conversion_error"
    /\ Emit(ErrorEv(file_path, "Conversion Error"))
    /\ exc' = "none"
    /\ pc' = "finally"
    /\ UNCHANGED <<files_to_process, selected_ratio_str, is_running, i,
                   probe_result, metadata, plan, error, cancel_started>>
    /\ UNCHANGED guivars

\* Lines 111-117: the finally block emits the progress and removes the
\* two-pass logs; an exception the except clause did not catch then leaves
\* run(), otherwise the loop goes on.
Finally ==
    /\ pc = "finally"
    /\ Emit(ProgressEv(file_path, Progress(i + 1, total_files)))
    /\ IF exc = "none"
       THEN /\ i' = i + 1
            /\ pc' = "loop"
       ELSE /\ i' = i
            /\ pc' = "crashed"
    /\ UNCHANGED <<files_to_process, selected_ratio_str, is_running,
                   probe_result, metadata, plan, error, exc, cancel_started>>
    /\ UNCHANGED guivars

\* Line 118: the finished signal.
EmitFinished ==
    /\ pc = "finish"
    /\ Emit(FinishedEv)
    /\ pc' = "done"
    /\ UNCHANGED <<files_to_process, selected_ratio_str, is_running, i,
                   probe_result, metadata, plan, error, exc, cancel_started>>
    /\ UNCHANGED guivars

\* The owner of the worker clears is_running (line 40 sets it, line 70 reads
\* it) from its own thread, at any moment of the run. cancel_started records
\* how many files had passed the loop head by then.
Cancel ==
    /\ is_running
    /\ pc \notin {"done", "crashed"}
    /\ is_running' = FALSE
    /\ cancel_started' = IF pc \in {"loop", "finish"} THEN i ELSE i + 1
    /\ UNCHANGED <<files_to_process, selected_ratio_str,
                   pc, i, probe_result, metadata, plan, error, exc, trace>>
    /\ UNCHANGED guivars

Next ==
    \/ LoopCheck
    \/ EmitAnalyzing
    \/ Probe
    \/ EmitAnalyzeFailed
    \/ EmitAnalysisError
    \/ Plan
    \/ EmitPassOne
    \/ RunPassOne
    \/ EmitPassTwo
    \/ RunPassTwo
    \/ EmitDone
    \/ EmitEncodeFailed
    \/ EmitConversionError
    \/ Finally
    \/ EmitFinished
    \/ Cancel

Spec == Init /\ [][Next]_vars

\* ----------------------------------------------------------- the window
\* Paths the user can drop onto the list.
Paths == 1..MaxPaths

\* What one drop can carry: one or two URLs, each a path or 0, a URL that is
\* no regular file.
DropLists ==
    {<<a>> : a \in 0..MaxPaths} \cup {<<a, b>> : a \in 0..MaxPaths, b \in 0..MaxPaths}

\* Line 147: a row with this path exists.
Exists(rows, p) == \E k \in 1..Len(rows) : rows[k].path = p

\* Lines 144-151, for the URLs from index k on.
RECURSIVE AddUrls(_, _, _)
AddUrls(rows, urls, k) ==
    IF k > Len(urls) THEN rows
    ELSE IF urls[k] \in Paths /\ ~Exists(rows, urls[k])
         THEN AddUrls(Append(rows, [path |-> urls[k], status |-> "Queued"]),
                      urls, k + 1)
         ELSE AddUrls(rows, urls, k + 1)

\* Lines 248-250: the paths of the rows whose status text is 'Queued'.
QueuedPaths(rows) ==
    LET sel == SelectSeq(rows, LAMBDA r : r.status = "Queued")
    IN  [k \in 1..Len(sel) |-> sel[k].path]

Range(seq) == {seq[k] : k \in 1..Len(seq)}

\* Lines 268-275: the first row with this path gets the status text.
SetStatus(rows, p, st) ==
    IF ~Exists(rows, p) THEN rows
    ELSE LET first == CHOOSE k \in 1..Len(rows) :
                          /\ rows[k].path = p
                          /\ \A m \in 1..(k - 1) : rows[m].path # p
         IN  [rows EXCEPT ![first].status = st]

\* The signals are queued to the window's thread and handled in the order
\* of emission: the next one is the first signal of the history beyond
\* delivered.
SignalKinds == {"status", "error", "progress", "finished"}
Pending == {j \in (delivered + 1)..Len(trace) : trace[j].kind \in SignalKinds}
HasPending == Pending # {}
NextSignal == CHOOSE j \in Pending : \A k \in Pending : j <= k

\* dropEvent as it would behave if the worker had been given the tree's own
\* list of paths: a new row also lands in the running batch.
dropEvent_Aliased ==
    /\ \E urls \in DropLists :
          /\ items' = AddUrls(items, urls, 1)
          /\ files_to_process' =
                IF pc = "idle" THEN files_to_process
                ELSE files_to_process \o
                     SubSeq(QueuedPaths(items'), Len(QueuedPaths(items)) + 1,
                            Len(QueuedPaths(items')))
    /\ UNCHANGED <<aspect_ratio_choice, convert_enabled, clear_enabled,
                   delivered, submitted, resubmitted>>
    /\ UNCHANGED <<selected_ratio_str, is_running, pc, i, probe_result,
                   metadata, plan, error, exc, trace, cancel_started>>

\* DropZoneTree.dropEvent (lines 143-151); drops are accepted at any time.
dropEvent ==
    /\ \E urls \in DropLists : items' = AddUrls(items, urls, 1)
    /\ UNCHANGED <<aspect_ratio_choice, convert_enabled, clear_enabled,
                   delivered, submitted, resubmitted>>
    /\ UNCHANGED workervars

\* The user picks an entry of aspect_ratio_choice (lines 181-186); the combo
\* box is never disabled.
SelectRatio ==
    /\ \E m \in Modes : aspect_ratio_choice' = m
    /\ UNCHANGED <<items, convert_enabled, clear_enabled,
                   delivered, submitted, resubmitted>>
    /\ UNCHANGED workervars

\* start_conversion (lines 247-265), the click handler of the enabled
\* convert button: nothing queued is a message box; otherwise both buttons
\* are disabled and a new worker gets the queued paths and the combo text.
start_conversion ==
    /\ convert_enabled
    /\ IF QueuedPaths(items) = <<>>
       THEN UNCHANGED vars
       ELSE /\ convert_enabled' = FALSE
            /\ clear_enabled' = FALSE
            /\ files_to_process' = QueuedPaths(items)
            /\ selected_ratio_str' = aspect_ratio_choice
            /\ is_running' = TRUE
            /\ pc' = "loop"
            /\ i' = 0
            /\ probe_result' = NoResult
            /\ metadata' = None
            /\ plan' = NoPlan
            /\ error' = NoError
            /\ exc' = "none"
            /\ trace' = <<>>
            /\ cancel_started' = 0
            /\ delivered' = 0
            /\ submitted' = submitted \cup Range(QueuedPaths(items))
            /\ resubmitted' =
                  resubmitted \cup (submitted \cap Range(QueuedPaths(items)))
            /\ UNCHANGED <<items, aspect_ratio_choice>>

\* on_update_status as it would behave if the row's text were not set.
on_update_status_Lost ==
    /\ HasPending
    /\ trace[NextSignal].kind = "status"
    /\ delivered' = NextSignal
    /\ UNCHANGED <<items, aspect_ratio_choice, convert_enabled, clear_enabled,
                   submitted, resubmitted>>
    /\ UNCHANGED workervars

\* on_update_status (lines 267-275).
on_update_status ==
    /\ HasPending
    /\ trace[NextSignal].kind = "status"
    /\ items' = SetStatus(items, trace[NextSignal].file, trace[NextSignal].val)
    /\ delivered' = NextSignal
    /\ UNCHANGED <<aspect_ratio_choice, convert_enabled, clear_enabled,
                   submitted, resubmitted>>
    /\ UNCHANGED workervars

\* progress_bar.setValue (line 262).
setValue ==
    /\ HasPending
    /\ trace[NextSignal].kind = "progress"
    /\ delivered' = NextSignal
    /\ UNCHANGED <<items, aspect_ratio_choice, convert_enabled, clear_enabled,
                   submitted, resubmitted>>
    /\ UNCHANGED workervars

\* on_show_error (lines 277-278): a message box.
on_show_error ==
    /\ HasPending
    /\ trace[NextSignal].kind = "error"
    /\ delivered' = NextSignal
    /\ UNCHANGED <<items, aspect_ratio_choice, convert_enabled, clear_enabled,
                   submitted, resubmitted>>
    /\ UNCHANGED workervars

\* on_conversion_finished (lines 280-283).
on_conversion_finished ==
    /\ HasPending
    /\ trace[NextSignal].kind = "finished"
    /\ convert_enabled' = TRUE
    /\ clear_enabled' = TRUE
    /\ delivered' = NextSignal
    /\ UNCHANGED <<items, aspect_ratio_choice, submitted, resubmitted>>
    /\ UNCHANGED workervars

\* clear_list (lines 285-288), the click handler of the enabled clear button.
clear_list ==
    /\ clear_enabled
    /\ items' = <<>>
    /\ submitted' = {}
    /\ resubmitted' = {}
    /\ UNCHANGED <<aspect_ratio_choice, convert_enabled, clear_enabled, delivered>>
    /\ UNCHANGED workervars

\* VideoConverterApp.__init__: an empty list, the first combo entry, both
\* buttons enabled, no worker.
AppInit ==
    /\ items = <<>>
    /\ aspect_ratio_choice = "Keep Original (Pad)"
    /\ convert_enabled = TRUE
    /\ clear_enabled = TRUE
    /\ delivered = 0
    /\ submitted = {}
    /\ resubmitted = {}
    /\ files_to_process = <<>>
    /\ selected_ratio_str = "Keep Original (Pad)"
    /\ is_running = FALSE
    /\ pc = "idle"
    /\ i = 0
    /\ probe_result = NoResult
    /\ metadata = None
    /\ plan = NoPlan
    /\ error = NoError
    /\ exc = "none"
    /\ trace = <<>>
    /\ cancel_started = 0

\* The window's handlers next to the steps of the worker it started. Nothing
\* in the application clears is_running.
AppNext ==
    \/ dropEvent
    \/ SelectRatio
    \/ start_conversion
    \/ on_update_status
    \/ setValue
    \/ on_show_error
    \/ on_conversion_finished
    \/ clear_list
    \/ LoopCheck
    \/ EmitAnalyzing
    \/ Probe
    \/ EmitAnalyzeFailed
    \/ EmitAnalysisError
    \/ Plan
    \/ EmitPassOne
    \/ RunPassOne
    \/ EmitPassTwo
    \/ RunPassTwo
    \/ EmitDone
    \/ EmitEncodeFailed
    \/ EmitConversionError
    \/ Finally
    \/ EmitFinished

AppSpec == AppInit /\ [][AppNext]_vars

\* ------------------------------------------------- reading the history
Idx == 1..Len(trace)
Files == 1..total_files
Terminated == pc \in {"done", "crashed"}

IsStatus(j, f, s) ==
    trace[j].kind = "status" /\ trace[j].file = f /\ trace[j].val = s
IsProc(j, tool, f, r) ==
    trace[j].kind = tool /\ trace[j].file = f /\ trace[j].val = r
IsError(j, f) == trace[j].kind = "error" /\ trace[j].file = f
IsProgress(j, f) == trace[j].kind = "progress" /\ trace[j].file = f
IsFailureStatus(j) ==
    trace[j].kind = "status" /\ trace[j].val \in {"AnalyzeFailed", "EncodeFailed"}

\* The status values emitted for file f, in order.
StatusOf(f) ==
    LET sel == SelectSeq(trace, LAMBDA e : e.kind = "status" /\ e.file = f)
    IN  [k \in 1..Len(sel) |-> sel[k].val]

IsPrefix(s, t) == Len(s) <= Len(t) /\ \A k \in 1..Len(s) : s[k] = t[k]

Started(f) == \E j \in Idx : IsStatus(j, f, "Analyzing")
\* The iteration of file f is over: the loop moved on, or run() ended.
Over(f) == f <= i \/ (Terminated /\ Started(f))
HasTerminalStatus(f) ==
    \E j \in Idx : trace[j].kind = "status" /\ trace[j].file = f
                   /\ trace[j].val \in {"AnalyzeFailed", "EncodeFailed", "Done"}
FinishedCount == Cardinality({j \in Idx : trace[j].kind = "finished"})

\* ------------------------------------------------------------------ C1
\* C1: 'Done' is emitted for a file only after a pass-1 and then a pass-2
\* invocation for that same file both exited with status 0.
C1_DoneOnlyAfterBothPasses ==
    \A j \in Idx :
        (trace[j].kind = "status" /\ trace[j].val = "Done") =>
            \E b \in 1..(j - 1) :
                /\ IsProc(b, "pass2", trace[j].file, "ok")
                /\ \E a \in 1..(b - 1) : IsProc(a, "pass1", trace[j].file, "ok")

\* A file was reported Done.
C1_Witness == \E j \in Idx : \E f \in Files : IsStatus(j, f, "Done")

\* ------------------------------------------------------------------ C2
ProbeFailedFiles ==
    {f \in Files : \E j \in Idx :
        IsProc(j, "ffprobe", f, "error")}

\* C2: a file whose probe fails never has pass 1 or pass 2 run for it, and
\* when the run has ended with the cancel flag never set every later file of
\* the batch has reached 'Analyzing'.
C2_ProbeFailureIsolated ==
    \A f \in ProbeFailedFiles :
        /\ \A j \in Idx :
              ~(trace[j].kind \in {"pass1", "pass2"} /\ trace[j].file = f)
        /\ (Terminated /\ is_running) =>
              \A g \in Files : g > f => Started(g)

\* ------------------------------------------------------------------ C3
PassOneFailedFiles ==
    {f \in Files : \E j \in Idx : IsProc(j, "pass1", f, "nonzero")}

\* C3: a file whose pass 1 exits non-zero never has pass 2 run, never gets
\* 'PassTwoRunning', ends in 'EncodeFailed', and when the run has ended with
\* the cancel flag never set every later file has been processed.
C3_PassOneFailureIsolated ==
    \A f \in PassOneFailedFiles :
        /\ \A j \in Idx : ~(trace[j].kind = "pass2" /\ trace[j].file = f)
        /\ \A j \in Idx : ~IsStatus(j, f, "PassTwoRunning")
        /\ Over(f) =>
              /\ StatusOf(f) # <<>>
              /\ StatusOf(f)[Len(StatusOf(f))] = "EncodeFailed"
        /\ (Terminated /\ is_running) =>
              \A g \in Files : g > f => Started(g)

\* ------------------------------------------------------------------ C4
\* C4: no per-file error leaves run(): the run never ends on an exception,
\* and a run that has ended has emitted the finished signal.
C4_NoErrorEscapesRun ==
    /\ pc # "crashed"
    /\ Terminated => FinishedCount >= 1

\* ------------------------------------------------------------------ C5
\* C5: the finished signal is emitted exactly once per run and nothing
\* follows it.
C5_FinishedExactlyOnceAndLast ==
    /\ FinishedCount <= 1
    /\ \A j \in Idx : trace[j].kind = "finished" => j = Len(trace)
    /\ Terminated => FinishedCount = 1

\* ------------------------------------------------------------------ C6
AllowedStatusSequences ==
    {<<"Analyzing", "AnalyzeFailed">>,
     <<"Analyzing", "PassOneRunning", "EncodeFailed">>,
     <<"Analyzing", "PassOneRunning", "PassTwoRunning", "EncodeFailed">>,
     <<"Analyzing", "PassOneRunning", "PassTwoRunning", "Done">>}

\* C6: the statuses of a file always form the beginning of one of the four
\* sequences, and once the file's iteration is over they are exactly one of
\* them (so the file has its one terminal status, with nothing after it).
C6_StatusSequences ==
    \A f \in Files :
        /\ \E a \in AllowedStatusSequences : IsPrefix(StatusOf(f), a)
        /\ (Started(f) /\ Over(f)) => StatusOf(f) \in AllowedStatusSequences

\* ------------------------------------------------------------------ C7
ProgressIdx(f) == {j \in Idx : IsProgress(j, f)}

\* C7: a file that reached its terminal status and whose iteration is over
\* has exactly one progress event, which comes after that status; a run
\* that returned without cancellation has emitted one progress event per
\* file.
C7_OneProgressPerFile ==
    /\ \A f \in Files :
          (HasTerminalStatus(f) /\ Over(f)) =>
              /\ Cardinality(ProgressIdx(f)) = 1
              /\ \A p \in ProgressIdx(f) :
                    \E j \in 1..(p - 1) :
                        /\ trace[j].kind = "status" /\ trace[j].file = f
                        /\ trace[j].val \in {"AnalyzeFailed", "EncodeFailed", "Done"}
    /\ (pc = "done" /\ is_running) =>
          Cardinality({j \in Idx : trace[j].kind = "progress"}) = total_files

\* ------------------------------------------------------------------ C8
\* C8 as stated: the progress emitted for the i-th of n files is the integer
\* nearest to 100*i/n.
C8_ProgressIsRounded ==
    \A j \in Idx :
        trace[j].kind = "progress" =>
            LET d == trace[j].val * total_files - 100 * trace[j].file
            IN  2 * d <= total_files /\ -2 * d <= total_files

\* C8 as amended: the progress emitted for the i-th of n files is 100*i/n
\* rounded down, the values strictly increase along the run, and a progress
\* event of the last file carries 100.
C8_ProgressIsTruncated ==
    /\ \A j \in Idx :
          trace[j].kind = "progress" =>
              /\ trace[j].val * total_files <= 100 * trace[j].file
              /\ 100 * trace[j].file < (trace[j].val + 1) * total_files
              /\ trace[j].file = total_files => trace[j].val = 100
    /\ LET prog == SelectSeq(trace, LAMBDA e : e.kind = "progress")
       IN  \A k \in 1..(Len(prog) - 1) : prog[k].val < prog[k + 1].val

\* The second of three files has emitted its progress, where rounding down
\* and rounding to nearest differ (66 against 67).
C8_Witness ==
    /\ total_files = 3
    /\ \E j \in Idx : IsProgress(j, 2) /\ trace[j].val = 66

\* ------------------------------------------------------------------ C9
\* C9: every failure status is directly followed by the error event of the
\* same file (or that event is the worker's very next step), every error
\* event directly follows a failure status of its file, and a file that is
\* Done has no error event.
C9_ErrorIffFailureStatus ==
    /\ \A j \in Idx :
          IsFailureStatus(j) =>
              IF j < Len(trace)
              THEN IsError(j + 1, trace[j].file)
              ELSE pc \in {"analysis_error", "conversion_error"}
    /\ \A j \in Idx :
          trace[j].kind = "error" =>
              /\ j > 1
              /\ IsFailureStatus(j - 1)
              /\ trace[j - 1].file = trace[j].file
    /\ \A f \in Files :
          (\E j \in Idx : IsStatus(j, f, "Done")) =>
              ~(\E j \in Idx : IsError(j, f))

\* Both kinds of failure and a success in one finished run, each failure
\* status followed by its error event.
C9_Witness ==
    /\ pc = "done"
    /\ \E j \in Idx : trace[j].kind = "status" /\ trace[j].val = "AnalyzeFailed"
                      /\ j < Len(trace) /\ trace[j + 1].kind = "error"
    /\ \E j \in Idx : trace[j].kind = "status" /\ trace[j].val = "EncodeFailed"
                      /\ j < Len(trace) /\ trace[j + 1].kind = "error"
    /\ \E j \in Idx : trace[j].kind = "status" /\ trace[j].val = "Done"

\* ----------------------------------------------------------------- C10
\* C10: once is_running was cleared with k files past the loop head, nothing
\* is emitted or run for a file after k, and a run that has ended gave file
\* k its terminal status and emitted the finished signal.
C10_CooperativeCancel ==
    ~is_running =>
        /\ \A j \in Idx :
              trace[j].kind # "finished" => trace[j].file <= cancel_started
        /\ Terminated =>
              /\ cancel_started >= 1 => HasTerminalStatus(cancel_started)
              /\ FinishedCount = 1

\* ----------------------------------------------------------------- C11
\* C11: the history is ordered by input position: whatever the worker emits
\* or runs for a file comes after everything of the files before it, the
\* entries of one file are contiguous, and nothing belongs to a file beyond
\* the one the loop is at (each external process is a blocking call of the
\* single worker thread, so no two of them overlap).
C11_StrictlySequential ==
    /\ \A j \in 1..(Len(trace) - 1) :
          trace[j + 1].kind # "finished" =>
              /\ trace[j].kind # "finished"
              /\ trace[j].file <= trace[j + 1].file
    /\ \A j \in Idx :
          trace[j].kind # "finished" =>
              /\ trace[j].file \in Files
              /\ trace[j].file <= i + 1
              /\ trace[j].file = files_to_process[trace[j].file]

\* Three files went through the worker, each with an external process.
C11_Witness ==
    /\ pc = "done"
    /\ \A f \in 1..3 : \E j \in Idx : trace[j].kind = "ffprobe" /\ trace[j].file = f
    /\ \E j \in Idx : trace[j].kind = "pass2" /\ trace[j].file = 2

\* ------------------------------------------------- reading the plan
\* The plan of the current file has just been made from metadata.
Planned == pc = "pass1"
CropMode == selected_ratio_str # "Keep Original (Pad)"
\* Displayed width and height of the probed stream.
ShownWidth ==
    IF metadata.rotation \in {90, 270} THEN metadata.height ELSE metadata.width
ShownHeight ==
    IF metadata.rotation \in {90, 270} THEN metadata.width ELSE metadata.height

\* ----------------------------------------------------------------- C12
\* C12 as stated: in a crop mode with ratio R the target is 1280 on the long
\* side and the integer nearest to 1280/R (R >= 1) or 1280*R (R < 1) on the
\* other.
C12_TargetIsRounded ==
    (Planned /\ CropMode) =>
        LET r == ratio_map(selected_ratio_str)
        IN  IF r.num >= r.den
            THEN /\ plan.target_w = 1280
                 /\ 2 * (plan.target_h * r.num - 1280 * r.den) <= r.num
                 /\ 2 * (1280 * r.den - plan.target_h * r.num) <= r.num
            ELSE /\ plan.target_h = 1280
                 /\ 2 * (plan.target_w * r.den - 1280 * r.num) <= r.den
                 /\ 2 * (1280 * r.num - plan.target_w * r.den) <= r.den

\* C12 as amended: the short side is 1280/R or 1280*R rounded down, which
\* gives 1280x720, 720x1280, 1280x1280 and 1280x590, whatever the input's
\* dimensions.
C12_TargetIsTruncated ==
    (Planned /\ CropMode) =>
        LET r == ratio_map(selected_ratio_str)
        IN  /\ IF r.num >= r.den
               THEN /\ plan.target_w = 1280
                    /\ plan.target_h * r.num <= 1280 * r.den
                    /\ 1280 * r.den < (plan.target_h + 1) * r.num
               ELSE /\ plan.target_h = 1280
                    /\ plan.target_w * r.den <= 1280 * r.num
                    /\ 1280 * r.num < (plan.target_w + 1) * r.den
            /\ <<plan.target_w, plan.target_h>> =
                  CASE selected_ratio_str = "Crop to 16:9 (Widescreen)" -> <<1280, 720>>
                    [] selected_ratio_str = "Crop to 9:16 (Tall/Story)" -> <<720, 1280>>
                    [] selected_ratio_str = "Crop to 1:1 (Square)" -> <<1280, 1280>>
                    [] OTHER -> <<1280, 590>>

\* A plan for 19.5:9, where rounding down and rounding to nearest differ.
C12_Witness ==
    /\ Planned
    /\ selected_ratio_str = "Crop to 19.5:9 (Modern Phone)"
    /\ plan.target_w = 1280 /\ plan.target_h = 590

\* ----------------------------------------------------------------- C13
\* C13: in a crop mode with ratio R and positive displayed size W x H, the
\* filter trims the sides (crop=ih*R:ih) when W/H > R and trims top and
\* bottom (crop=iw:iw/R) when W/H <= R; 1920x1080 unrotated in 1:1 trims the
\* sides.
C13_CropSide ==
    (Planned /\ CropMode /\ ShownWidth > 0 /\ ShownHeight > 0) =>
        LET r == ratio_map(selected_ratio_str)
        IN  /\ ShownWidth * r.den > ShownHeight * r.num
                  => plan.scale_filter = "crop=ih*R:ih"
            /\ ShownWidth * r.den <= ShownHeight * r.num
                  => plan.scale_filter = "crop=iw:iw/R"
            /\ (selected_ratio_str = "Crop to 1:1 (Square)"
                /\ metadata = [width |-> 1920, height |-> 1080, rotation |-> 0])
                  => plan.scale_filter = "crop=ih*R:ih"

\* A rotated 1080x1920 stream (shown 1920x1080) planned for 16:9: the ratios
\* are equal and top and bottom are trimmed.
C13_Witness ==
    /\ Planned
    /\ selected_ratio_str = "Crop to 16:9 (Widescreen)"
    /\ metadata = [width |-> 1080, height |-> 1920, rotation |-> 90]
    /\ plan.scale_filter = "crop=iw:iw/R"

\* ----------------------------------------------------------------- C14
\* C14: the effective dimensions of the plan are (height, width) of the
\* probed stream for rotation 90 and 270, and (width, height) for 0 and 180.
C14_EffectiveDimensions ==
    Planned =>
        /\ metadata.rotation \in {90, 270} =>
              plan.width = metadata.height /\ plan.height = metadata.width
        /\ metadata.rotation \in {0, 180} =>
              plan.width = metadata.width /\ plan.height = metadata.height

\* A plan made from a stream stored 1920x1080 and rotated by 270.
C14_Witness ==
    /\ Planned
    /\ metadata = [width |-> 1920, height |-> 1080, rotation |-> 270]
    /\ plan.width = 1080 /\ plan.height = 1920

\* ----------------------------------------------------------------- C15
\* C15: in the pad mode the target is 1280x720 when the displayed width is
\* at least the displayed height and 720x1280 otherwise, and the filter
\* scales and pads without cropping; 1080x1920 rotated by 90 gives 1280x720.
C15_PadTarget ==
    (Planned /\ ~CropMode) =>
        /\ ShownWidth >= ShownHeight =>
              plan.target_w = 1280 /\ plan.target_h = 720
        /\ ShownWidth < ShownHeight =>
              plan.target_w = 720 /\ plan.target_h = 1280
        /\ plan.scale_filter = "scale,pad"
        /\ metadata = [width |-> 1080, height |-> 1920, rotation |-> 90] =>
              plan.target_w = 1280 /\ plan.target_h = 720

\* A square stream planned in the pad mode.
C15_Witness ==
    /\ Planned
    /\ ~CropMode
    /\ metadata = [width |-> 1080, height |-> 1080, rotation |-> 0]
    /\ plan.target_w = 1280 /\ plan.target_h = 720

\* ----------------------------------------------------------------- C16
\* C16: a probe that found a video stream with integer width and height and
\* a rotate tag that is absent or not an integer succeeds with rotation 0.
C16_RotationDefaultsToZero ==
    (pc \in {"plan", "analyze_failed"}
     /\ probe_result.kind = "video"
     /\ probe_result.rotate \in {"absent", "bad"}) =>
        /\ pc = "plan"
        /\ error = NoError
        /\ metadata.rotation = 0
\* ----------------------------------------------------------------- C19
\* C19: the file pass 2 writes for one source is neither the output of
\* another source of the batch nor another source of the batch itself.
C19_OutputsDistinct ==
    \A j \in Idx :
        trace[j].kind = "pass2" =>
            \A g \in Files \ {trace[j].file} :
                /\ output_file(PathOf(trace[j].file)) # output_file(PathOf(g))
                /\ output_file(PathOf(trace[j].file)) # PathOf(g)

\* ------------------------------------------------- reading the window
\* run() of the current worker has not returned or died yet.
WorkerRunning == pc \notin {"idle", "done", "crashed"}
ItemPaths == [k \in 1..Len(items) |-> items[k].path]

\* ----------------------------------------------------------------- C17
\* C17: while a worker runs, no step of the window or of the worker changes
\* the list of paths it was given (its files, their order, the count its
\* progress is computed from) or its mode.
C17_BatchFixedAtStart ==
    [][WorkerRunning =>
          /\ files_to_process' = files_to_process
          /\ selected_ratio_str' = selected_ratio_str]_vars

\* A worker is past its first file while the list holds a queued path that
\* was dropped after the start and the combo box shows another mode.
C17_Witness ==
    /\ WorkerRunning
    /\ i >= 1
    /\ aspect_ratio_choice # selected_ratio_str
    /\ \E k \in 1..Len(items) :
          /\ items[k].status = "Queued"
          /\ items[k].path \notin Range(files_to_process)

\* ----------------------------------------------------------------- C18
\* C18: while a worker runs both buttons are disabled (no second worker, no
\* clearing), and once the run is over and every signal it emitted has been
\* handled both buttons are enabled again.
C18_OneWorkerButtonsRestored ==
    /\ WorkerRunning => (~convert_enabled /\ ~clear_enabled)
    /\ (pc \in {"done", "crashed"} /\ ~HasPending) =>
          (convert_enabled /\ clear_enabled)

\* ----------------------------------------------------------------- C20
\* C20: since the list was last cleared no path was handed to a worker
\* twice, the list holds no path twice, only paths handed to a worker carry
\* a status other than 'Queued', and the batch of the worker at work is made
\* of rows of the list, in list order (no row queued at its start is left
\* out: a queued row outside the batch was never handed to any worker).
C20_SubmittedOnce ==
    /\ resubmitted = {}
    /\ \A k \in 1..Len(items) : \A m \in 1..Len(items) :
          items[k].path = items[m].path => k = m
    /\ \A k \in 1..Len(items) :
          items[k].status # "Queued" => items[k].path \in submitted
    /\ ~convert_enabled =>
          /\ SelectSeq(ItemPaths, LAMBDA q : q \in Range(files_to_process))
                = files_to_process
          /\ \A k \in 1..Len(items) :
                (items[k].status = "Queued"
                 /\ items[k].path \notin Range(files_to_process))
                    => items[k].path \notin submitted

\* A second batch is at work on a path dropped later while the row of the
\* first batch keeps its terminal status.
C20_Witness ==
    /\ WorkerRunning
    /\ Len(items) = 2
    /\ items[1].status \in {"Done", "AnalyzeFailed", "EncodeFailed"}
    /\ files_to_process = <<items[2].path>>
    /\ submitted = {items[1].path, items[2].path}
    /\ \E j \in Idx : trace[j].kind = "pass1"
====
